---- MODULE Spec2Model ----
(***************************************************************************)
(* Model of scripts/fetch_earnings.py: the earnings-calendar cache.        *)
(*                                                                         *)
(* Python strings are sequences of one-character strings, so that strip(), *)
(* lower(), split(), strftime() and strptime() are computed and not        *)
(* assumed.  None is the one-element sequence <<"None">>, which no string  *)
(* equals.  Dates are proleptic Gregorian ordinals, as in datetime.date.   *)
(* The clock `now` counts seconds since 1970-01-01T00:00:00Z and the local *)
(* time zone is UTC (the script runs in CI).                               *)
(***************************************************************************)
EXTENDS Integers, Sequences, FiniteSets, TLC

VARIABLES
    mr_start, mr_end, mr_out,      \* month_ranges: arguments and result
    row_time, flag,                \* normalize_time_flag: argument and result
    now,                           \* time.time(), in whole seconds
    calendar_json,                 \* build_index_all: the rows of its argument
    today,                         \* build_index_all: its local today
    idx,                           \* the index build_index_all returned
    new_json,                      \* json.dumps(idx, sort_keys=True)
    again_json,                    \* the same, from a second reduction of the same rows
    OUTPUT_JSON, SYMBOLS_CACHE,    \* the files docs/earnings.json, docs/symbols_cache.json,
    STATS_JSON, LAST_RUN,          \*   docs/stats.json and docs/last_run.txt
    scenario,                      \* what varies in the environment: "configs" or "data"
    FINNHUB_TOKEN, EXCHANGES,      \* the environment of the running process
    TODAY, FROM_DATE, TO_DATE,     \* module-level dates of the running process
    pc,                            \* where the process is: idle, symbols, calendar, exited
    exit_code,                     \* exit status of the last process
    runs,                          \* number of processes started
    ex_list, exi, all_syms,        \* fetch_symbols_from_exchanges: list, position, result so far
    sym_universe,                  \* main: the symbol universe
    ranges, ri, all_rows,          \* main: month windows, position, rows so far
    requests,                      \* the HTTP requests of the running process, in order
    written,                       \* the files the running process has written
    at_start                       \* the files and the clock when the process started

mrVars     == <<mr_start, mr_end, mr_out>>
normVars   == <<row_time, flag>>
reduceVars == <<calendar_json, today, idx, new_json, again_json>>
fileVars   == <<OUTPUT_JSON, SYMBOLS_CACHE, STATS_JSON, LAST_RUN>>
envVars    == <<FINNHUB_TOKEN, EXCHANGES, TODAY, FROM_DATE, TO_DATE>>
symVars    == <<ex_list, exi, all_syms, sym_universe>>
calVars    == <<ranges, ri, all_rows>>
procVars   == <<pc, exit_code, runs>>
logVars    == <<requests, written, at_start>>
mainVars   == <<scenario, fileVars, envVars, symVars, calVars, procVars, logVars>>

vars == <<mrVars, normVars, now, reduceVars, mainVars>>

(***************************************************************************)
(* Bounds of the model.                                                    *)
(***************************************************************************)
MaxStartOffset == 430   \* month_ranges: start is at most this many days after FirstDay
MaxSpan        == 40    \* month_ranges: end - start is at most this
MaxFlagLen     == 4     \* normalize_time_flag: length of the raw value
MaxRows        == 3     \* build_index_all: number of calendar rows
MaxRuns        == 2     \* number of processes started
DAYS_AHEAD     == 60    \* FINNHUB_DAYS_AHEAD of the modelled environment

None  == <<"None">>
Unset == <<"Unset">>    \* a result not computed yet

(***************************************************************************)
(* Characters and strings.                                                 *)
(***************************************************************************)
Whitespace == {" ", "\t"}

DigitChars == <<"0", "1", "2", "3", "4", "5", "6", "7", "8", "9">>

DigitSet == {DigitChars[i] : i \in 1..10}

DigitValues == [c \in DigitSet |-> (CHOOSE i \in 1..10 : DigitChars[i] = c) - 1]

IsDigit(c) == c \in DigitSet

DigitVal(c) == DigitValues[c]

Digit(n) == DigitChars[n + 1]

UpperChars == <<"A", "B", "C", "D", "E", "F", "G", "H", "I", "J", "K", "L", "M",
                "N", "O", "P", "Q", "R", "S", "T", "U", "V", "W", "X", "Y", "Z">>
LowerChars == <<"a", "b", "c", "d", "e", "f", "g", "h", "i", "j", "k", "l", "m",
                "n", "o", "p", "q", "r", "s", "t", "u", "v", "w", "x", "y", "z">>

UpperSet == {UpperChars[i] : i \in 1..26}

LowerOf == [c \in UpperSet |-> LowerChars[CHOOSE i \in 1..26 : UpperChars[i] = c]]

LowerChar(c) == IF c \in UpperSet THEN LowerOf[c] ELSE c

\* str.lower()
Lower(s) == [i \in 1..Len(s) |-> LowerChar(s[i])]

\* str.strip(): drops leading and trailing whitespace
Strip(s) ==
    LET keep == {i \in 1..Len(s) : s[i] \notin Whitespace}
    IN  IF keep = {} THEN <<>>
        ELSE LET lo == CHOOSE i \in keep : \A j \in keep : i <= j
                 hi == CHOOSE i \in keep : \A j \in keep : j <= i
             IN  SubSeq(s, lo, hi)

\* Python truthiness of a value that is None or a string
Truthy(v) == v # None /\ v # <<>>

\* (v or "")
OrEmpty(v) == IF Truthy(v) THEN v ELSE <<>>

(***************************************************************************)
(* datetime.date                                                           *)
(***************************************************************************)
IsLeap(y) == y % 4 = 0 /\ (y % 100 # 0 \/ y % 400 = 0)

DaysInMonth(y, m) ==
    IF m = 2 THEN (IF IsLeap(y) THEN 29 ELSE 28)
    ELSE IF m \in {4, 6, 9, 11} THEN 30 ELSE 31

DaysBeforeYear(y) ==
    LET p == y - 1 IN p * 365 + (p \div 4) - (p \div 100) + (p \div 400)

\* days of a common year before the first of each month
DaysBeforeMonthTable == <<0, 31, 59, 90, 120, 151, 181, 212, 243, 273, 304, 334>>

DaysBeforeMonth(y, m) ==
    DaysBeforeMonthTable[m] + (IF m > 2 /\ IsLeap(y) THEN 1 ELSE 0)

\* datetime.date(y, m, d)
MkDate(y, m, d) == DaysBeforeYear(y) + DaysBeforeMonth(y, m) + d

FirstYear == 2024
YearSpan  == 3
Years     == FirstYear..(FirstYear + YearSpan)
FirstDay  == MkDate(FirstYear, 1, 1)
Epoch     == MkDate(1970, 1, 1)

Year(n)  == CHOOSE y \in Years : DaysBeforeYear(y) < n /\ n <= DaysBeforeYear(y + 1)
Month(n) ==
    LET y == Year(n)
        k == n - DaysBeforeYear(y)
    IN  CHOOSE m \in 1..12 :
            /\ DaysBeforeMonth(y, m) < k
            /\ k <= DaysBeforeMonth(y, m) + DaysInMonth(y, m)
Day(n)   ==
    LET y == Year(n)
    IN  n - DaysBeforeYear(y) - DaysBeforeMonth(y, Month(n))

\* date.strftime("%Y-%m-%d")
Strftime(n) ==
    LET y == Year(n)
        m == Month(n)
        d == n - DaysBeforeYear(y) - DaysBeforeMonth(y, m)
    IN  << Digit(y \div 1000), Digit((y \div 100) % 10), Digit((y \div 10) % 10), Digit(y % 10),
           "-", Digit(m \div 10), Digit(m % 10),
           "-", Digit(d \div 10), Digit(d % 10) >>

ValueError == -1

\* the regular expressions of _strptime for %m and %d
MatchesMonth(s) ==
    \/ Len(s) = 2 /\ s[1] = "1" /\ s[2] \in {"0", "1", "2"}
    \/ Len(s) = 2 /\ s[1] = "0" /\ IsDigit(s[2]) /\ s[2] # "0"
    \/ Len(s) = 1 /\ IsDigit(s[1]) /\ s[1] # "0"

MatchesDay(s) ==
    \/ Len(s) = 2 /\ s[1] = "3" /\ s[2] \in {"0", "1"}
    \/ Len(s) = 2 /\ s[1] \in {"1", "2"} /\ IsDigit(s[2])
    \/ Len(s) = 2 /\ s[1] = "0" /\ IsDigit(s[2]) /\ s[2] # "0"
    \/ Len(s) = 1 /\ IsDigit(s[1]) /\ s[1] # "0"
    \/ Len(s) = 2 /\ s[1] = " " /\ IsDigit(s[2]) /\ s[2] # "0"

RECURSIVE ToInt(_)
ToInt(s) ==
    IF s = <<>> THEN 0
    ELSE IF s[Len(s)] = " " THEN ToInt(SubSeq(s, 1, Len(s) - 1))
    ELSE ToInt(SubSeq(s, 1, Len(s) - 1)) * 10 + DigitVal(s[Len(s)])

\* datetime.datetime.strptime(s, "%Y-%m-%d").date(); ValueError when it raises
Strptime(s) ==
    LET dashes == {i \in 1..Len(s) : s[i] = "-"}
    IN  IF Cardinality(dashes) # 2 \/ 5 \notin dashes
           \/ \E i \in 1..4 : i > Len(s) \/ ~IsDigit(s[i])
        THEN ValueError
        ELSE LET p2   == CHOOSE i \in dashes : i # 5
                 mstr == SubSeq(s, 6, p2 - 1)
                 dstr == SubSeq(s, p2 + 1, Len(s))
             IN  IF ~MatchesMonth(mstr) \/ ~MatchesDay(dstr) THEN ValueError
                 ELSE LET y == ToInt(SubSeq(s, 1, 4))
                          m == ToInt(mstr)
                          d == ToInt(dstr)
                      IN  IF y < 1 \/ d > DaysInMonth(y, m) THEN ValueError
                          ELSE MkDate(y, m, d)

(***************************************************************************)
(* month_ranges                                                            *)
(***************************************************************************)
Max(a, b) == IF a >= b THEN a ELSE b
Min(a, b) == IF a <= b THEN a ELSE b

\* the first day of the month after the month that starts on cur
NextMonthStart(cur) ==
    IF Month(cur) = 12 THEN MkDate(Year(cur) + 1, 1, 1)
    ELSE MkDate(Year(cur), Month(cur) + 1, 1)

\* a variant that does not clip the month to [start_date, end_date]
MonthWindowUnclipped(cur, nxt, start_date, end_date) ==
    <<Strftime(cur), Strftime(nxt - 1)>>

\* the (from, to) pair of the month [cur, nxt), clipped to [start_date, end_date]
MonthWindow(cur, nxt, start_date, end_date) ==
    LET last == nxt - 1
        frm  == Max(cur, start_date)
        to   == Min(last, end_date)
    IN  <<Strftime(frm), Strftime(to)>>

RECURSIVE MonthRangesLoop(_, _, _, _, _)
MonthRangesLoop(cur, end, start_date, end_date, out) ==
    IF cur <= end
    THEN LET nxt == NextMonthStart(cur)
         IN  MonthRangesLoop(nxt, end, start_date, end_date,
                             Append(out, MonthWindow(cur, nxt, start_date, end_date)))
    ELSE out

month_ranges(start_date, end_date) ==
    LET cur == MkDate(Year(start_date), Month(start_date), 1)
        end == MkDate(Year(end_date), Month(end_date), 1)
    IN  MonthRangesLoop(cur, end, start_date, end_date, <<>>)

(***************************************************************************)
(* normalize_time_flag                                                     *)
(***************************************************************************)
KnownFlags == { <<"b", "m", "o">>, <<"a", "m", "c">> }
Tbd        == <<"t", "b", "d">>

\* a variant that compares the raw value without lowercasing it
normalize_time_flag_cased(t) ==
    IF ~Truthy(t) THEN Tbd
    ELSE LET val == Strip(t)
         IN  IF val \in KnownFlags THEN val ELSE Tbd

normalize_time_flag(t) ==
    IF ~Truthy(t) THEN Tbd
    ELSE LET val == Lower(Strip(t))
         IN  IF val \in KnownFlags THEN val ELSE Tbd

(***************************************************************************)
(* The clock: datetime.date.today() and datetime.datetime.utcnow()         *)
(***************************************************************************)
DateOf(t) == Epoch + (t \div 86400)

TwoDigits(n) == <<Digit(n \div 10), Digit(n % 10)>>

\* utcnow().replace(microsecond=0).isoformat() + "Z"
IsoUtc(t) ==
    LET s == t % 86400
    IN  Strftime(DateOf(t)) \o <<"T">> \o TwoDigits(s \div 3600) \o <<":">>
        \o TwoDigits((s % 3600) \div 60) \o <<":">> \o TwoDigits(s % 60) \o <<"Z">>

(***************************************************************************)
(* build_index_all                                                         *)
(***************************************************************************)
EmptyDict == <<>>

\* a variant after by_symbol.get(sym, []).append(item): the list of a new
\* symbol is never stored
GetAppend(d, k, item) ==
    IF k \in DOMAIN d THEN [d EXCEPT ![k] = Append(@, item)]
    ELSE d

\* by_symbol.setdefault(sym, []).append(item)
SetDefaultAppend(d, k, item) ==
    IF k \in DOMAIN d THEN [d EXCEPT ![k] = Append(@, item)]
    ELSE d @@ (k :> <<item>>)

\* the first loop: rows that have a symbol and a parseable date not before today
RECURSIVE GroupRows(_, _, _, _)
GroupRows(rows, i, today_, by_symbol) ==
    IF i > Len(rows) THEN by_symbol
    ELSE LET r   == rows[i]
             sym == Strip(OrEmpty(r.symbol))
             d   == r.date
         IN  IF ~Truthy(sym) \/ ~Truthy(d)
             THEN GroupRows(rows, i + 1, today_, by_symbol)
             ELSE LET dt == Strptime(d)
                  IN  IF dt = ValueError \/ dt < today_
                      THEN GroupRows(rows, i + 1, today_, by_symbol)
                      ELSE GroupRows(rows, i + 1, today_,
                                     SetDefaultAppend(by_symbol, sym, <<dt, r>>))

\* items.sort(key=lambda t: t[0]): stable, an item goes after the items whose
\* date is not later than its own
InsertByDate(sorted, item) ==
    LET before == {k \in 1..Len(sorted) : sorted[k][1] <= item[1]}
        n      == Cardinality(before)
    IN  SubSeq(sorted, 1, n) \o <<item>> \o SubSeq(sorted, n + 1, Len(sorted))

RECURSIVE SortByDate(_)
SortByDate(items) ==
    IF items = <<>> THEN <<>>
    ELSE InsertByDate(SortByDate(SubSeq(items, 1, Len(items) - 1)), items[Len(items)])

\* a variant that takes the time of the last row of the earliest date
RecordOfLastRow(sym, items, stamp) ==
    LET sorted    == SortByDate(items)
        best_date == sorted[1][1]
        same_day  == SelectSeq(sorted, LAMBDA it : it[1] = best_date)
    IN  [ symbol           |-> sym,
          nextEarningsDate |-> Strftime(best_date),
          time             |-> normalize_time_flag(same_day[Len(same_day)][2].time),
          finnhubCount     |-> Len(same_day),
          lastUpdatedUtc   |-> IsoUtc(stamp) ]

\* the record of one symbol, from its surviving (date, row) items
RecordOf(sym, items, stamp) ==
    LET sorted    == SortByDate(items)
        best_date == sorted[1][1]
        same_day  == SelectSeq(sorted, LAMBDA it : it[1] = best_date)
    IN  [ symbol           |-> sym,
          nextEarningsDate |-> Strftime(best_date),
          time             |-> normalize_time_flag(same_day[1][2].time),
          finnhubCount     |-> Len(same_day),
          lastUpdatedUtc   |-> IsoUtc(stamp) ]

\* a variant that keeps the rows dated before today
build_index_all_keeps_past(rows, t) ==
    LET by_symbol == GroupRows(rows, 1, FirstDay, EmptyDict)
    IN  [sym \in DOMAIN by_symbol |-> RecordOf(sym, by_symbol[sym], t)]

\* build_index_all when the clock reads t
build_index_all(rows, t) ==
    LET by_symbol == GroupRows(rows, 1, DateOf(t), EmptyDict)
    IN  [sym \in DOMAIN by_symbol |-> RecordOf(sym, by_symbol[sym], t)]

(***************************************************************************)
(* json.dumps(idx, ensure_ascii=False, indent=2, sort_keys=True) and       *)
(* json.loads.  A text is a sequence of tokens: the opening brace, one     *)
(* member per key in key order, the closing brace.  The empty file is the  *)
(* empty sequence.                                                         *)
(***************************************************************************)
\* ord(c)
Ord(c) ==
    IF \E i \in 1..26 : UpperChars[i] = c THEN 64 + (CHOOSE i \in 1..26 : UpperChars[i] = c)
    ELSE IF \E i \in 1..26 : LowerChars[i] = c THEN 96 + (CHOOSE i \in 1..26 : LowerChars[i] = c)
    ELSE IF IsDigit(c) THEN 48 + DigitVal(c)
    ELSE IF c = " " THEN 32
    ELSE IF c = "\t" THEN 9
    ELSE IF c = "-" THEN 45
    ELSE IF c = "," THEN 44
    ELSE 46

\* a < b for Python strings
RECURSIVE StrLess(_, _)
StrLess(a, b) ==
    IF b = <<>> THEN FALSE
    ELSE IF a = <<>> THEN TRUE
    ELSE IF Ord(a[1]) # Ord(b[1]) THEN Ord(a[1]) < Ord(b[1])
    ELSE StrLess(Tail(a), Tail(b))

\* sorted(keys)
RECURSIVE SortedKeys(_)
SortedKeys(keys) ==
    IF keys = {} THEN <<>>
    ELSE LET least == CHOOSE k \in keys : \A o \in keys \ {k} : StrLess(k, o)
         IN  <<least>> \o SortedKeys(keys \ {least})

\* the members of one record, in key order
DumpRecord(r) ==
    << <<"finnhubCount", r.finnhubCount>>,
       <<"lastUpdatedUtc", r.lastUpdatedUtc>>,
       <<"nextEarningsDate", r.nextEarningsDate>>,
       <<"symbol", r.symbol>>,
       <<"time", r.time>> >>

Dumps(d) ==
    LET keys == SortedKeys(DOMAIN d)
    IN  << <<"{">> >>
        \o [i \in 1..Len(keys) |-> <<"member", keys[i], DumpRecord(d[keys[i]])>>]
        \o << <<"}">> >>

(***************************************************************************)
(* Files.  A file is missing, or has a text and a modification time.       *)
(***************************************************************************)
Missing       == [exists |-> FALSE, text |-> <<>>, mtime |-> 0]
File(text, t) == [exists |-> TRUE, text |-> text, mtime |-> t]

EARNINGS_TTL_HOURS == 24
DAYS_BACK          == 7
TTL_DAYS           == 7

\* a variant that measures the age from the end of the last run, which
\* rewrote last_run.txt, not from the last write of the file itself
file_age_hours_since_last_run(path, t) ==
    IF ~path.exists THEN [num |-> 1000000000, den |-> 1]
    ELSE IF LAST_RUN.exists THEN [num |-> t - LAST_RUN.mtime, den |-> 3600]
    ELSE [num |-> t - path.mtime, den |-> 3600]

\* a variant that takes the age in seconds for the age in hours
file_age_hours_in_seconds(path, t) ==
    IF ~path.exists THEN [num |-> 1000000000, den |-> 1]
    ELSE [num |-> t - path.mtime, den |-> 1]

\* file_age_hours(path) when the clock reads t, as the fraction num/den
file_age_hours(path, t) ==
    IF ~path.exists THEN [num |-> 1000000000, den |-> 1]
    ELSE [num |-> t - path.mtime, den |-> 3600]

\* q < n for a fraction q with a positive denominator
FractionBelow(q, n) == q.num < n * q.den

\* json.loads of the text of docs/earnings.json: whether it parses, and the
\* dict it gives
Loads(text) ==
    IF /\ Len(text) >= 2
       /\ text[1] = <<"{">>
       /\ text[Len(text)] = <<"}">>
       /\ \A i \in 2..(Len(text) - 1) : text[i][1] = "member"
    THEN [ok |-> TRUE,
          value |-> [k \in {text[i][2] : i \in 2..(Len(text) - 1)} |->
                        LET last == CHOOSE i \in 2..(Len(text) - 1) :
                                        /\ text[i][2] = k
                                        /\ \A j \in 2..(Len(text) - 1) : text[j][2] = k => j <= i
                        IN  text[last][3]]]
    ELSE [ok |-> FALSE, value |-> EmptyDict]

NoCount == -1     \* an optional argument of write_stats left at None

\* a variant that reports no records whatever it is given
write_stats_uncounted(count, universe_count, rows_total, rows_after_filter, t) ==
    [count |-> 0, daysAhead |-> DAYS_AHEAD, daysBack |-> DAYS_BACK,
     lastUpdatedUtc |-> IsoUtc(t)]

\* the document write_stats writes when the clock reads t
write_stats(count, universe_count, rows_total, rows_after_filter, t) ==
    LET stats == [count |-> count, daysAhead |-> DAYS_AHEAD, daysBack |-> DAYS_BACK,
                  lastUpdatedUtc |-> IsoUtc(t)]
    IN  IF universe_count = NoCount THEN stats
        ELSE [count |-> count, daysAhead |-> DAYS_AHEAD, daysBack |-> DAYS_BACK,
              lastUpdatedUtc |-> IsoUtc(t),
              universeCount |-> universe_count,
              calendarRowsFetched |-> rows_total,
              calendarRowsAfterFilter |-> rows_after_filter]

(***************************************************************************)
(* The symbol universe: fetch_symbols_from_exchanges, load_symbols_cached  *)
(***************************************************************************)
Range(q) == {q[i] : i \in 1..Len(q)}

\* s.split(sep)
RECURSIVE Split(_, _)
Split(s, sep) ==
    LET at == {i \in 1..Len(s) : s[i] = sep}
    IN  IF at = {} THEN <<s>>
        ELSE LET k == CHOOSE i \in at : \A j \in at : i <= j
             IN  <<SubSeq(s, 1, k - 1)>> \o Split(SubSeq(s, k + 1, Len(s)), sep)

\* [e.strip() for e in EXCHANGES.split(",") if e.strip()]
ParseExchanges(exchanges) ==
    LET parts    == Split(exchanges, ",")
        stripped == [i \in 1..Len(parts) |-> Strip(parts[i])]
    IN  SelectSeq(stripped, LAMBDA e : Truthy(e))

\* sub in s
Contains(s, sub) ==
    \E i \in 1..(Len(s) - Len(sub) + 1) : SubSeq(s, i, i + Len(sub) - 1) = sub

\* sorted(list) for a list of strings
RECURSIVE SortStrings(_)
SortStrings(q) ==
    IF q = <<>> THEN <<>>
    ELSE LET rest   == SortStrings(SubSeq(q, 1, Len(q) - 1))
             x      == q[Len(q)]
             before == {k \in 1..Len(rest) : ~StrLess(x, rest[k])}
             n      == Cardinality(before)
         IN  SubSeq(rest, 1, n) \o <<x>> \o SubSeq(rest, n + 1, Len(rest))

\* a variant that also keeps ETFs and funds
KeepListedAny(row) ==
    Truthy(Strip(OrEmpty(row.symbol)))

\* whether the loop over one exchange's listing keeps the row
KeepListed(row) ==
    LET sym == Strip(OrEmpty(row.symbol))
        typ == Lower(OrEmpty(row.type))
    IN  /\ Truthy(sym)
        /\ ~(Contains(typ, <<"e", "t", "f">>) \/ Contains(typ, <<"f", "u", "n", "d">>))

\* the symbols the loop appends to all_syms for one exchange's listing
ListedSymbols(data) ==
    LET kept == SelectSeq(data, KeepListed)
    IN  [i \in 1..Len(kept) |-> Strip(OrEmpty(kept[i].symbol))]

\* the position of the next exchange at or after i that is not blank
RECURSIVE NextExchange(_, _)
NextExchange(list, i) ==
    IF i > Len(list) THEN i
    ELSE IF Truthy(Strip(list[i])) THEN i
    ELSE NextExchange(list, i + 1)

\* the document load_symbols_cached writes
CacheDoc(exchanges, syms, t) ==
    [valid |-> TRUE, exchanges |-> exchanges, generatedUtc |-> IsoUtc(t), symbols |-> syms]

\* a variant that takes the staleness window in hours for days
CacheUsableTtlInHours(cache, exchanges, ttl_days, t) ==
    /\ cache.exists
    /\ cache.text.valid
    /\ (t - cache.mtime) < ttl_days * 3600
    /\ SortStrings(cache.text.exchanges) = SortStrings(exchanges)

\* a variant that uses the cache whatever its age
CacheUsableAnyAge(cache, exchanges, ttl_days, t) ==
    /\ cache.exists
    /\ cache.text.valid
    /\ SortStrings(cache.text.exchanges) = SortStrings(exchanges)

\* a variant that compares the two exchange lists as they are
CacheUsableUnsorted(cache, exchanges, ttl_days, t) ==
    /\ cache.exists
    /\ cache.text.valid
    /\ (t - cache.mtime) < ttl_days * 86400
    /\ cache.text.exchanges = exchanges

\* load_symbols_cached returns the cached symbols
CacheUsable(cache, exchanges, ttl_days, t) ==
    /\ cache.exists
    /\ cache.text.valid
    /\ (t - cache.mtime) < ttl_days * 86400
    /\ SortStrings(cache.text.exchanges) = SortStrings(exchanges)

\* a variant that keeps every row
FilterRowsNone(rows, universe) == rows

\* main (3): the rows whose stripped symbol is in the universe
FilterRows(rows, universe) ==
    SelectSeq(rows, LAMBDA r : Strip(OrEmpty(r.symbol)) \in universe)

\* a variant that writes the file every time
NeedsWriteAlways(new, old) == TRUE

\* main (5): the index file is written only if the text changed
NeedsWrite(new, old) == new # old

(***************************************************************************)
(* Specification of month_ranges over a window of dates.                   *)
(***************************************************************************)
StartDay == MkDate(FirstYear + 1, 3, 9)
T0       == (StartDay - Epoch) * 86400     \* midnight of StartDay

NormIdle == row_time = None /\ flag = Unset

MRIdle == mr_start = FirstDay /\ mr_end = FirstDay /\ mr_out = Unset

\* no process has run and there are no files
MainIdle ==
    /\ scenario = "none"
    /\ OUTPUT_JSON = Missing /\ SYMBOLS_CACHE = Missing
    /\ STATS_JSON = Missing /\ LAST_RUN = Missing
    /\ FINNHUB_TOKEN = <<>> /\ EXCHANGES = <<>>
    /\ TODAY = 0 /\ FROM_DATE = <<>> /\ TO_DATE = <<>>
    /\ pc = "idle" /\ exit_code = 0 /\ runs = 0
    /\ ex_list = <<>> /\ exi = 0 /\ all_syms = <<>> /\ sym_universe = {}
    /\ ranges = <<>> /\ ri = 0 /\ all_rows = <<>>
    /\ requests = <<>> /\ written = {}
    /\ at_start = [now |-> 0, OUTPUT_JSON |-> Missing, SYMBOLS_CACHE |-> Missing,
                   STATS_JSON |-> Missing, LAST_RUN |-> Missing]

ReduceIdle ==
    /\ calendar_json = <<>>
    /\ today = 0
    /\ idx = EmptyDict
    /\ new_json = Unset
    /\ again_json = Unset

InitMR ==
    /\ mr_start \in FirstDay..(FirstDay + MaxStartOffset)
    /\ mr_end \in mr_start..(mr_start + MaxSpan)
    /\ mr_out = Unset
    /\ NormIdle
    /\ now = T0
    /\ ReduceIdle
    /\ MainIdle

CallMonthRanges ==
    /\ mr_out = Unset
    /\ mr_out' = month_ranges(mr_start, mr_end)
    /\ UNCHANGED <<mr_start, mr_end, normVars, now, reduceVars, mainVars>>

NextMR == CallMonthRanges

SpecMR == InitMR /\ [][NextMR]_vars

\* C1: for start <= end, month_ranges returns a non-empty list of (from, to)
\* pairs; the first from is start, the last to is end, every pair has
\* from <= to, and each from is the day after the previous to.
MonthRangesPartition ==
    mr_out # Unset =>
        LET n == Len(mr_out)
            From(i) == Strptime(mr_out[i][1])
            To(i)   == Strptime(mr_out[i][2])
        IN  /\ n >= 1
            /\ \A i \in 1..n : From(i) # ValueError /\ To(i) # ValueError
            /\ From(1) = mr_start
            /\ To(n) = mr_end
            /\ \A i \in 1..n : From(i) <= To(i)
            /\ \A i \in 1..(n - 1) : From(i + 1) = To(i) + 1

\* a range from December of a leap year into February, cut into three
MonthRangesAcrossYears ==
    /\ mr_out # Unset
    /\ Len(mr_out) = 3
    /\ Year(mr_start) < Year(mr_end)
    /\ Day(mr_start) > 1

(***************************************************************************)
(* Specification of normalize_time_flag over short raw values.             *)
(***************************************************************************)
FlagChars == {"b", "m", "o", "B", "M", "a", "c", " "}

RECURSIVE StringsUpTo(_, _)
StringsUpTo(chars, n) ==
    IF n = 0 THEN { <<>> }
    ELSE LET shorter == StringsUpTo(chars, n - 1)
         IN  shorter \cup { Append(s, c) : s \in shorter, c \in chars }

InitNorm ==
    /\ row_time \in {None} \cup StringsUpTo(FlagChars, MaxFlagLen)
    /\ flag = Unset
    /\ MRIdle
    /\ now = T0
    /\ ReduceIdle
    /\ MainIdle

CallNormalize ==
    /\ flag = Unset
    /\ flag' = normalize_time_flag(row_time)
    /\ UNCHANGED <<mrVars, row_time, now, reduceVars, mainVars>>

NextNorm == CallNormalize

SpecNorm == InitNorm /\ [][NextNorm]_vars

\* t is word in some letter case, with nothing around it
EqualsIgnoringCase(t, word) ==
    /\ t # None
    /\ Len(t) = Len(word)
    /\ \A k \in 1..Len(word) : LowerChar(t[k]) = word[k]

\* t is word in some letter case, with only whitespace around it
EqualsIgnoringCaseAndPadding(t, word) ==
    /\ t # None
    /\ \E i \in 1..Len(t) :
          /\ i + Len(word) - 1 <= Len(t)
          /\ \A k \in 1..Len(t) :
                IF k < i \/ k > i + Len(word) - 1
                THEN t[k] \in Whitespace
                ELSE LowerChar(t[k]) = word[k - i + 1]

\* C10 as stated: the result is bmo or amc exactly when the raw value equals
\* that word ignoring letter case, and tbd for every other value.
NormalizeIgnoresCaseOnly ==
    flag # Unset =>
        /\ flag \in KnownFlags \cup {Tbd}
        /\ \A w \in KnownFlags : flag = w <=> EqualsIgnoringCase(row_time, w)

\* C10 amended: the result is bmo or amc exactly when the raw value equals that
\* word ignoring letter case and surrounding whitespace; absent, empty and
\* every other value give tbd.
NormalizeIgnoresCaseAndPadding ==
    flag # Unset =>
        /\ flag \in KnownFlags \cup {Tbd}
        /\ \A w \in KnownFlags : flag = w <=> EqualsIgnoringCaseAndPadding(row_time, w)
        /\ ~Truthy(row_time) => flag = Tbd

\* an upper-case flag with whitespace before it has been normalized to bmo
NormalizedPaddedUpperCase ==
    /\ flag = <<"b", "m", "o">>
    /\ row_time = <<" ", "B", "M", "o">>

(***************************************************************************)
(* Specification of the Event Reducer: build_index_all and json.dumps,     *)
(* applied twice to one list of calendar rows while the clock advances.    *)
(***************************************************************************)
Str_A    == <<"A">>
Str_B    == <<"B">>
Str_bmo  == <<"b", "m", "o">>
Str_amc  == <<"a", "m", "c">>
Str_noon == <<"n", "o", "o", "n">>

\* the date n without zero padding, a form strptime accepts
Unpadded(n) ==
    LET m == Month(n)
        d == Day(n)
    IN  SubSeq(Strftime(n), 1, 5)
        \o (IF m < 10 THEN <<Digit(m)>> ELSE TwoDigits(m)) \o <<"-">>
        \o (IF d < 10 THEN <<Digit(d)>> ELSE TwoDigits(d))

\* February 30th
NoSuchDay == SubSeq(Strftime(StartDay), 1, 5) \o <<"0", "2", "-", "3", "0">>

Row(sym, d, t) == [symbol |-> sym, date |-> d, time |-> t]

SampleRows ==
    LET P == Strftime(StartDay - 1)
        T == Strftime(StartDay)
        N == Strftime(StartDay + 1)
        F == Strftime(StartDay + 23)
    IN  { Row(Str_A, T, Str_bmo),
          Row(Str_A, T, <<"A", "M", "C">>),
          Row(Str_A, N, <<" ", "a", "m", "c">>),
          Row(Str_A, P, Str_amc),
          Row(<<" ", "A">>, Unpadded(StartDay), Str_noon),
          Row(Str_A, None, Str_bmo),
          Row(None, T, Str_bmo),
          Row(Str_B, F, None),
          Row(Str_B, NoSuchDay, Str_amc) }

RECURSIVE SeqsUpTo(_, _)
SeqsUpTo(S, n) ==
    IF n = 0 THEN { <<>> }
    ELSE LET shorter == SeqsUpTo(S, n - 1)
         IN  shorter \cup { Append(q, x) : q \in shorter, x \in S }

\* the last second of StartDay and the first of the next day
ReduceInstants == {T0 + 86399, T0 + 86400}

InitReduce ==
    /\ calendar_json \in SeqsUpTo(SampleRows, MaxRows)
    /\ now = T0 + 86399
    /\ today = 0
    /\ idx = EmptyDict
    /\ new_json = Unset
    /\ again_json = Unset
    /\ MRIdle
    /\ NormIdle
    /\ MainIdle

TickReduce ==
    /\ now' \in {t \in ReduceInstants : t > now}
    /\ UNCHANGED <<mrVars, normVars, reduceVars, mainVars>>

\* idx = build_index_all(...); new_json = json.dumps(idx, ...)
Reduce ==
    /\ today = 0
    /\ today' = DateOf(now)
    /\ idx' = build_index_all(calendar_json, now)
    /\ new_json' = Dumps(idx')
    /\ UNCHANGED <<mrVars, normVars, now, scenario, calendar_json, again_json, mainVars>>

\* the same call on the same rows, later
ReduceAgain ==
    /\ today # 0
    /\ again_json = Unset
    /\ again_json' = Dumps(build_index_all(calendar_json, now))
    /\ UNCHANGED <<mrVars, normVars, now, scenario, calendar_json, today, idx, new_json, mainVars>>

NextReduce == TickReduce \/ Reduce \/ ReduceAgain

SpecReduce == InitReduce /\ [][NextReduce]_vars

\* the date of each input row, ValueError where it has none that parses
ParsedDates ==
    [i \in 1..Len(calendar_json) |->
        IF Truthy(calendar_json[i].date) THEN Strptime(calendar_json[i].date)
        ELSE ValueError]

\* the rows of symbol sym that build_index_all keeps: well-formed, not before today
Surviving(sym, dates) ==
    {i \in 1..Len(calendar_json) :
        /\ Truthy(calendar_json[i].symbol)
        /\ Strip(calendar_json[i].symbol) = sym
        /\ dates[i] # ValueError
        /\ dates[i] >= today}

\* C2: each record carries the earliest surviving date of its symbol, the
\* number of surviving rows on that date, and the normalized time flag of the
\* first of those rows in input order.
EarliestDateFirstRowWins ==
    today # 0 =>
        LET dates == ParsedDates
        IN  \A sym \in DOMAIN idx :
              LET surv     == Surviving(sym, dates)
                  earliest == CHOOSE i \in surv : \A j \in surv : dates[i] <= dates[j]
                  same     == {i \in surv : dates[i] = dates[earliest]}
                  first    == CHOOSE i \in same : \A j \in same : i <= j
              IN  /\ surv # {}
                  /\ Strptime(idx[sym].nextEarningsDate) = dates[earliest]
                  /\ idx[sym].finnhubCount = Cardinality(same)
                  /\ idx[sym].time = normalize_time_flag(calendar_json[first].time)

\* two rows of A on the earliest date, amc before bmo, and a later row: the
\* record says amc, count 2
TieBrokenByInputOrder ==
    /\ today # 0
    /\ Len(calendar_json) = 3
    /\ calendar_json[1] = Row(Str_A, Strftime(StartDay), <<"A", "M", "C">>)
    /\ calendar_json[2] = Row(Str_A, Strftime(StartDay), Str_bmo)
    /\ calendar_json[3] = Row(Str_A, Strftime(StartDay + 1), <<" ", "a", "m", "c">>)
    /\ Str_A \in DOMAIN idx
    /\ idx[Str_A].time = Str_amc
    /\ idx[Str_A].finnhubCount = 2
    /\ idx[Str_A].nextEarningsDate = Strftime(StartDay)

\* the rows of the input that are not dated before today
WithoutPast(dates) ==
    LET keep == {i \in 1..Len(calendar_json) : dates[i] = ValueError \/ dates[i] >= today}
        F[i \in 0..Len(calendar_json)] ==
            IF i = 0 THEN <<>>
            ELSE IF i \in keep THEN Append(F[i - 1], calendar_json[i]) ELSE F[i - 1]
    IN  F[Len(calendar_json)]

\* C3: no record is dated before the day of the computation, rows dated
\* before that day change nothing in the index, and a well-formed row dated
\* that very day is retained.
NoPastEvents ==
    today # 0 =>
        LET dates == ParsedDates
        IN  /\ \A sym \in DOMAIN idx : Strptime(idx[sym].nextEarningsDate) >= today
            /\ \E t \in ReduceInstants :
                  DateOf(t) = today /\ idx = build_index_all(WithoutPast(dates), t)
            /\ \A i \in 1..Len(calendar_json) :
                  LET r == calendar_json[i]
                  IN  (Truthy(r.symbol) /\ Truthy(Strip(r.symbol)) /\ dates[i] = today)
                      => /\ Strip(r.symbol) \in DOMAIN idx
                         /\ idx[Strip(r.symbol)].nextEarningsDate = Strftime(today)

\* a past row of A came before a row of A dated today: the record is dated today
PastRowDroppedTodayKept ==
    /\ today = StartDay
    /\ Len(calendar_json) >= 2
    /\ calendar_json[1] = Row(Str_A, Strftime(StartDay - 1), Str_amc)
    /\ calendar_json[2] = Row(Str_A, Strftime(StartDay), Str_bmo)
    /\ idx[Str_A].nextEarningsDate = Strftime(StartDay)
    /\ idx[Str_A].finnhubCount = 1

\* C4: reducing the same rows twice gives the same serialized text.
ReduceTwiceSameText ==
    again_json # Unset => again_json = new_json

(***************************************************************************)
(* Specification of the script: processes started one after another, each  *)
(* running the module-level code and main().  An action runs the code from *)
(* one HTTP response to the next HTTP request or to the end of the         *)
(* process; the clock may advance at any point.                            *)
(***************************************************************************)
Str_US == <<"U", "S">>
Str_DE == <<"D", "E">>
Str_C  == <<"C">>
Str_D  == <<"D">>

\* values of FINNHUB_EXCHANGES: a list, the same list reordered and spaced,
\* the same list with one identifier repeated, and a list without US
ExchangeConfigs ==
    { <<"U", "S", ",", "D", "E">>,
      <<"D", "E", ",", " ", "U", "S">>,
      <<"U", "S", ",", "U", "S", ",", "D", "E">>,
      <<"D", "E", ",">> }

\* in scenario "configs" the exchange list changes between processes, every
\* listing request succeeds and the calendar is empty; in scenario "data" the
\* exchange list is fixed, listing requests may fail and the calendar has rows
Configs ==
    IF scenario = "configs" THEN ExchangeConfigs ELSE { <<"U", "S", ",", "D", "E">> }

ListingOutcomes == IF scenario = "configs" THEN {TRUE} ELSE BOOLEAN

Tokens == { <<>>, <<"k">> }

Listed(sym, typ) == [symbol |-> sym, type |-> typ]

\* what /stock/symbol returns for an exchange when the request succeeds
SymbolListing(ex) ==
    IF ex = Str_US
    THEN << Listed(Str_A, <<"S", "t", "o", "c", "k">>),
            Listed(<<" ", "B", " ">>, None),
            Listed(<<"E">>, <<"E", "T", "F">>),
            Listed(<<>>, <<"S", "t", "o", "c", "k">>),
            Listed(Str_A, <<>>) >>
    ELSE IF ex = Str_DE
    THEN << Listed(Str_C, <<"s", "t", "o", "c", "k">>),
            Listed(Str_B, <<"S", "t", "o", "c", "k">>),
            Listed(<<"F">>, <<"M", "F", "u", "n", "d">>),
            Listed(None, <<"S", "t", "o", "c", "k">>) >>
    ELSE <<>>

\* rows the calendar may hold: A and D eleven days after StartDay and C four
\* days after it, B on the first of the next month
CalendarSamples ==
    { << Row(Str_A, Strftime(StartDay + 11), Str_bmo),
         Row(Str_D, Strftime(StartDay + 11), Str_bmo),
         Row(Str_C, Strftime(StartDay + 4), None) >>,
      << Row(Str_B, Strftime(StartDay + 23), Str_amc) >> }

\* what /calendar/earnings may return for a window when the request
\* succeeds: nothing, or sample rows dated within the window
CalendarResponses(window) ==
    { <<>> } \cup
    IF scenario = "configs" THEN {}
    ELSE { rows \in CalendarSamples :
             \A i \in 1..Len(rows) :
                 /\ Strptime(window[1]) <= Strptime(rows[i].date)
                 /\ Strptime(rows[i].date) <= Strptime(window[2]) }

\* instants of the clock: T0, a second, a day and a week later
Instants == {T0, T0 + 1, T0 + 86400, T0 + 604800}

\* a truncated index file: the text ends after its first record
Garbage ==
    << <<"{">>,
       <<"member", Str_A,
         DumpRecord([symbol |-> Str_A, nextEarningsDate |-> Strftime(StartDay + 11),
                     time |-> Str_bmo, finnhubCount |-> 1,
                     lastUpdatedUtc |-> IsoUtc(T0 - 86400)])>> >>

\* a universe cache file that json.loads cannot read
UnreadableCache ==
    [valid |-> FALSE, exchanges |-> <<>>, generatedUtc |-> <<>>, symbols |-> <<>>]

Init ==
    /\ now = T0
    /\ scenario \in {"configs", "data"}
    /\ OUTPUT_JSON \in IF scenario = "configs" THEN { Missing }
                        ELSE { Missing,
                               File(Dumps(EmptyDict), T0 - 86400),
                               File(Garbage, T0) }
    \* next to the truncated index file lies an unreadable universe cache
    /\ SYMBOLS_CACHE = IF OUTPUT_JSON.exists /\ OUTPUT_JSON.text = Garbage
                       THEN File(UnreadableCache, T0)
                       ELSE Missing
    /\ STATS_JSON = Missing /\ LAST_RUN = Missing
    /\ FINNHUB_TOKEN = <<>> /\ EXCHANGES = <<>>
    /\ TODAY = 0 /\ FROM_DATE = <<>> /\ TO_DATE = <<>>
    /\ pc = "idle" /\ exit_code = 0 /\ runs = 0
    /\ ex_list = <<>> /\ exi = 0 /\ all_syms = <<>> /\ sym_universe = {}
    /\ ranges = <<>> /\ ri = 0 /\ all_rows = <<>>
    /\ requests = <<>> /\ written = {}
    /\ at_start = [now |-> 0, OUTPUT_JSON |-> Missing, SYMBOLS_CACHE |-> Missing,
                   STATS_JSON |-> Missing, LAST_RUN |-> Missing]
    /\ MRIdle /\ NormIdle /\ ReduceIdle

pureVars == <<mrVars, normVars, again_json, scenario>>

\* requests.get(..., timeout=60): the seconds a running process may wait for
\* a response
REQUEST_TIMEOUT == 60

\* the clock advances: by any amount between processes, by no more than the
\* request timeout while a process waits for a response
Tick ==
    /\ now' \in {t \in Instants :
                   /\ t > now
                   /\ pc \in {"symbols", "calendar"} => t - now <= REQUEST_TIMEOUT}
    /\ UNCHANGED <<mrVars, normVars, reduceVars, mainVars>>

\* a variant in which the interpreter ends with status 0 whatever happened
ExitStatusAlwaysZero(uncaught) == 0

\* the exit status the interpreter gives the process: 1 after sys.exit(1) or
\* an exception that left main, 0 when the script ran to its end
ExitStatus(uncaught) == IF uncaught THEN 1 ELSE 0

\* a new process: its environment, the module-level dates, fresh locals
StartProcess(token, exchanges) ==
    /\ pc \in {"idle", "exited"}
    /\ runs < MaxRuns
    /\ runs' = runs + 1
    /\ FINNHUB_TOKEN' = Strip(token)
    /\ EXCHANGES' = exchanges
    /\ requests' = <<>>
    /\ at_start' = [now |-> now, OUTPUT_JSON |-> OUTPUT_JSON, SYMBOLS_CACHE |-> SYMBOLS_CACHE,
                    STATS_JSON |-> STATS_JSON, LAST_RUN |-> LAST_RUN]
    /\ calendar_json' = <<>> /\ today' = 0 /\ idx' = EmptyDict /\ new_json' = Unset
    /\ all_syms' = <<>> /\ all_rows' = <<>>
    /\ UNCHANGED <<pureVars, now>>

\* the module-level dates
ModuleDates ==
    /\ TODAY' = DateOf(now)
    /\ FROM_DATE' = Strftime(DateOf(now) - DAYS_BACK)
    /\ TO_DATE' = Strftime(DateOf(now) + DAYS_AHEAD)

\* lines 6-9: without a token the process exits with status 1
RunWithoutToken ==
    \E token \in Tokens :
        /\ StartProcess(token, <<>>)
        /\ ~Truthy(Strip(token))
        /\ pc' = "exited" /\ exit_code' = ExitStatus(TRUE)
        /\ TODAY' = 0 /\ FROM_DATE' = <<>> /\ TO_DATE' = <<>>
        /\ ex_list' = <<>> /\ exi' = 0 /\ sym_universe' = {}
        /\ ranges' = <<>> /\ ri' = 0
        /\ written' = {}
        /\ UNCHANGED fileVars

\* main, lines 176-184: the index file is fresh
RunGated ==
    \E token \in Tokens :
        /\ StartProcess(token, <<>>)
        /\ Truthy(Strip(token))
        /\ ModuleDates
        /\ FractionBelow(file_age_hours(OUTPUT_JSON, now), EARNINGS_TTL_HOURS)
        /\ LET current == Loads(OUTPUT_JSON.text)
               count   == IF current.ok THEN Cardinality(DOMAIN current.value) ELSE 0
           IN  STATS_JSON' = File(write_stats(count, NoCount, NoCount, NoCount, now), now)
        /\ LAST_RUN' = File(IsoUtc(now), now)
        /\ written' = {"stats.json", "last_run.txt"}
        /\ pc' = "exited" /\ exit_code' = ExitStatus(FALSE)
        /\ ex_list' = <<>> /\ exi' = 0 /\ sym_universe' = {}
        /\ ranges' = <<>> /\ ri' = 0
        /\ UNCHANGED <<OUTPUT_JSON, SYMBOLS_CACHE>>

\* main, lines 191-194: the month windows, before the first calendar request
CalendarPending ==
    /\ ranges' = month_ranges(Strptime(FROM_DATE'), Strptime(TO_DATE'))
    /\ ri' = 1
    /\ pc' = "calendar"

\* main, lines 187-188, load_symbols_cached, lines 95-101: the cache is used
RunCacheHit ==
    \E token \in Tokens, exchanges \in Configs :
        /\ StartProcess(token, exchanges)
        /\ Truthy(Strip(token))
        /\ ModuleDates
        /\ ~FractionBelow(file_age_hours(OUTPUT_JSON, now), EARNINGS_TTL_HOURS)
        /\ ex_list' = ParseExchanges(exchanges)
        /\ CacheUsable(SYMBOLS_CACHE, ex_list', TTL_DAYS, now)
        /\ sym_universe' = Range(SYMBOLS_CACHE.text.symbols)
        /\ exi' = 0
        /\ CalendarPending
        /\ written' = {}
        /\ UNCHANGED <<fileVars, exit_code>>

\* a variant that falls back on the symbols of the old cache file when no
\* exchange answered
FinishRefreshKeepingOld(syms_found) ==
    IF syms_found = <<>> /\ SYMBOLS_CACHE.exists /\ SYMBOLS_CACHE.text.valid
    THEN /\ UNCHANGED SYMBOLS_CACHE
         /\ sym_universe' = Range(SYMBOLS_CACHE.text.symbols)
         /\ CalendarPending
    ELSE /\ SYMBOLS_CACHE' = File(CacheDoc(ex_list', SortedKeys(Range(syms_found)), now), now)
         /\ sym_universe' = Range(syms_found)
         /\ CalendarPending

\* a variant that leaves the writing of the cache file to the end of the run
FinishRefreshDeferred(syms_found) ==
    /\ UNCHANGED SYMBOLS_CACHE
    /\ sym_universe' = Range(SortedKeys(Range(syms_found)))
    /\ CalendarPending

\* load_symbols_cached, lines 105-110: the end of a refresh
FinishRefresh(syms_found) ==
    LET syms == SortedKeys(Range(syms_found))
    IN  /\ SYMBOLS_CACHE' = File(CacheDoc(ex_list', syms, now), now)
        /\ sym_universe' = Range(syms)
        /\ CalendarPending

\* load_symbols_cached: the cache is not used, the exchanges are queried
RunCacheMiss ==
    \E token \in Tokens, exchanges \in Configs :
        /\ StartProcess(token, exchanges)
        /\ Truthy(Strip(token))
        /\ ModuleDates
        /\ ~FractionBelow(file_age_hours(OUTPUT_JSON, now), EARNINGS_TTL_HOURS)
        /\ ex_list' = ParseExchanges(exchanges)
        /\ ~CacheUsable(SYMBOLS_CACHE, ex_list', TTL_DAYS, now)
        /\ exi' = NextExchange(ex_list', 1)
        /\ IF exi' <= Len(ex_list')
           THEN /\ pc' = "symbols"
                /\ sym_universe' = {} /\ ranges' = <<>> /\ ri' = 0
                /\ written' = {}
                /\ UNCHANGED SYMBOLS_CACHE
           ELSE /\ FinishRefresh(<<>>)
                /\ written' = {"symbols_cache.json"}
        /\ UNCHANGED <<OUTPUT_JSON, STATS_JSON, LAST_RUN, exit_code>>

\* fetch_symbols_from_exchanges, lines 73-90: the response for one exchange
\* arrives, or the request fails
SymbolsResponse ==
    \E ok \in ListingOutcomes :
        /\ pc = "symbols"
        /\ UNCHANGED <<mrVars, normVars, now, scenario, reduceVars, OUTPUT_JSON, STATS_JSON, LAST_RUN,
                       envVars, ex_list, all_rows, exit_code, runs, at_start>>
        /\ LET ex == Strip(ex_list[exi])
           IN  /\ requests' = Append(requests, [kind |-> "symbol", arg |-> ex, ok |-> ok])
               /\ all_syms' = IF ok THEN all_syms \o ListedSymbols(SymbolListing(ex))
                                     ELSE all_syms
        /\ exi' = NextExchange(ex_list, exi + 1)
        /\ IF exi' <= Len(ex_list)
           THEN UNCHANGED <<SYMBOLS_CACHE, sym_universe, ranges, ri, pc, written>>
           ELSE /\ FinishRefresh(all_syms')
                /\ written' = written \cup {"symbols_cache.json"}

\* a variant that answers a failed request with an empty document
fetch_calendar_range_swallowing(ok, rows) ==
    [raised |-> FALSE, earningsCalendar |-> IF ok THEN rows ELSE <<>>]

\* fetch_calendar_range: raises when the request failed, else returns the rows
fetch_calendar_range(ok, rows) ==
    [raised |-> ~ok, earningsCalendar |-> IF ok THEN rows ELSE <<>>]

\* main, line 195: the request for one window fails and the exception
\* leaves main
CalendarFails ==
    /\ pc = "calendar"
    /\ fetch_calendar_range(FALSE, <<>>).raised
    /\ requests' = Append(requests, [kind |-> "calendar", arg |-> ranges[ri], ok |-> FALSE])
    /\ pc' = "exited" /\ exit_code' = ExitStatus(fetch_calendar_range(FALSE, <<>>).raised)
    /\ UNCHANGED <<mrVars, normVars, now, scenario, reduceVars, fileVars, envVars, symVars, calVars,
                   runs, written, at_start>>

\* main, lines 195-222: the response for one window arrives; after the last
\* window the rows are filtered and reduced, the files written
CalendarResponse ==
    /\ pc = "calendar"
    /\ \E ok \in BOOLEAN, rows \in CalendarResponses(ranges[ri]) :
        /\ ok \/ rows = <<>>
        /\ ~fetch_calendar_range(ok, rows).raised
        /\ requests' = Append(requests, [kind |-> "calendar", arg |-> ranges[ri], ok |-> ok])
        /\ all_rows' = all_rows \o fetch_calendar_range(ok, rows).earningsCalendar
        /\ IF ri < Len(ranges)
           THEN /\ ri' = ri + 1
                /\ UNCHANGED <<reduceVars, fileVars, pc, exit_code, written>>
           ELSE LET filtered_rows == FilterRows(all_rows', sym_universe)
                    old_json == IF OUTPUT_JSON.exists THEN OUTPUT_JSON.text ELSE <<>>
                IN  /\ calendar_json' = filtered_rows
                    /\ today' = DateOf(now)
                    /\ idx' = build_index_all(filtered_rows, now)
                    /\ new_json' = Dumps(idx')
                    /\ IF NeedsWrite(new_json', old_json)
                       THEN /\ OUTPUT_JSON' = File(new_json', now)
                            /\ written' = written \cup {"earnings.json", "stats.json", "last_run.txt"}
                       ELSE /\ UNCHANGED OUTPUT_JSON
                            /\ written' = written \cup {"stats.json", "last_run.txt"}
                    /\ STATS_JSON' = File(write_stats(Cardinality(DOMAIN idx'),
                                                       Cardinality(sym_universe),
                                                       Len(all_rows'), Len(filtered_rows), now), now)
                    /\ LAST_RUN' = File(IsoUtc(now), now)
                    /\ pc' = "exited" /\ exit_code' = ExitStatus(FALSE)
                    /\ UNCHANGED <<ri, SYMBOLS_CACHE, again_json>>
        /\ UNCHANGED <<mrVars, normVars, now, scenario, envVars, symVars, ranges, runs, at_start>>

Next ==
    \/ Tick
    \/ RunWithoutToken
    \/ RunGated
    \/ RunCacheHit
    \/ RunCacheMiss
    \/ SymbolsResponse
    \/ CalendarFails
    \/ CalendarResponse

Spec == Init /\ [][Next]_vars

\* the running process got past the token check
TokenPresent == runs > 0 /\ Truthy(FINNHUB_TOKEN)

\* the index file existed and was younger than the TTL when the process started
FreshAtStart ==
    /\ at_start.OUTPUT_JSON.exists
    /\ at_start.now - at_start.OUTPUT_JSON.mtime < EARNINGS_TTL_HOURS * 3600

RequestsOf(kind) == SelectSeq(requests, LAMBDA q : q.kind = kind)

\* C5: a process that starts with a fresh index file makes no request, writes
\* neither the index file nor the universe cache, and has rewritten
\* stats.json and last_run.txt when it ends.
GatedRunOnlyRewritesMetadata ==
    (TokenPresent /\ FreshAtStart) =>
        /\ requests = <<>>
        /\ "earnings.json" \notin written /\ OUTPUT_JSON = at_start.OUTPUT_JSON
        /\ "symbols_cache.json" \notin written /\ SYMBOLS_CACHE = at_start.SYMBOLS_CACHE
        /\ pc = "exited" =>
              /\ {"stats.json", "last_run.txt"} \subseteq written
              /\ STATS_JSON.exists /\ STATS_JSON.mtime >= at_start.now
              /\ LAST_RUN.exists /\ LAST_RUN.mtime >= at_start.now

\* the second process found the index the first one wrote less than a day
\* before, and ended
GatedRunEnded ==
    /\ TokenPresent /\ FreshAtStart
    /\ runs = 2
    /\ Loads(at_start.OUTPUT_JSON.text).ok
    /\ at_start.now - at_start.OUTPUT_JSON.mtime = 86399
    /\ pc = "exited"

\* the process ran the whole of main past the gate
CompletedFullRun ==
    /\ TokenPresent /\ ~FreshAtStart
    /\ pc = "exited" /\ exit_code = 0

TextAtStart == IF at_start.OUTPUT_JSON.exists THEN at_start.OUTPUT_JSON.text ELSE <<>>

\* C6: a full run that completes writes the index file exactly when the new
\* text differs from the file's content (nothing, for a missing file), and
\* rewrites stats.json and last_run.txt in both cases.
IndexWrittenIffChanged ==
    CompletedFullRun =>
        /\ "earnings.json" \in written <=> new_json # TextAtStart
        /\ new_json = TextAtStart => OUTPUT_JSON = at_start.OUTPUT_JSON
        /\ new_json # TextAtStart => OUTPUT_JSON.exists /\ OUTPUT_JSON.text = new_json
                                        /\ OUTPUT_JSON.mtime >= at_start.now
        /\ {"stats.json", "last_run.txt"} \subseteq written
        /\ STATS_JSON.exists /\ STATS_JSON.mtime >= OUTPUT_JSON.mtime
        /\ LAST_RUN.exists /\ LAST_RUN.mtime >= OUTPUT_JSON.mtime

\* a full run computed the text the file already had and left the file alone
FullRunLeftIndexUntouched ==
    /\ CompletedFullRun
    /\ at_start.OUTPUT_JSON.exists
    /\ new_json = at_start.OUTPUT_JSON.text
    /\ OUTPUT_JSON.mtime < at_start.now
    /\ STATS_JSON.mtime >= at_start.now

\* C7: a failed calendar request is the last thing the process does: no
\* later request, no reduction, and the index file is as it was at the start.
CalendarFailureAborts ==
    \A i \in 1..Len(requests) :
        (requests[i].kind = "calendar" /\ ~requests[i].ok) =>
            /\ i = Len(requests)
            /\ pc = "exited"
            /\ new_json = Unset /\ today = 0
            /\ "earnings.json" \notin written
            /\ OUTPUT_JSON = at_start.OUTPUT_JSON

\* the request for the middle window failed after the first window brought
\* rows, with an index file on disk
MiddleWindowFailed ==
    /\ Len(RequestsOf("calendar")) = 2
    /\ ~requests[Len(requests)].ok
    /\ all_rows # <<>>
    /\ at_start.OUTPUT_JSON.exists
    /\ pc = "exited"

\* the process reached load_symbols_cached with a readable cache younger
\* than the staleness window
CacheFreshAtStart ==
    /\ TokenPresent /\ ~FreshAtStart
    /\ at_start.SYMBOLS_CACHE.exists
    /\ at_start.SYMBOLS_CACHE.text.valid
    /\ at_start.now - at_start.SYMBOLS_CACHE.mtime < TTL_DAYS * 86400

Occurrences(q, x) == Cardinality({i \in 1..Len(q) : q[i] = x})

\* the cached symbols were returned: no listing request, no write
CacheReturned ==
    /\ RequestsOf("symbol") = <<>>
    /\ "symbols_cache.json" \notin written
    /\ SYMBOLS_CACHE = at_start.SYMBOLS_CACHE
    /\ sym_universe = Range(at_start.SYMBOLS_CACHE.text.symbols)

\* C8 as stated: a fresh readable cache is returned whenever its exchange
\* identifiers and the configured ones are the same set.
CacheHitOnSameSet ==
    (CacheFreshAtStart
     /\ Range(at_start.SYMBOLS_CACHE.text.exchanges) = Range(ParseExchanges(EXCHANGES)))
        => CacheReturned

\* C8 amended: a fresh readable cache is returned whenever its exchange
\* identifiers are the configured ones in some order, each as many times.
CacheHitOnSameList ==
    (CacheFreshAtStart
     /\ \A x \in Range(at_start.SYMBOLS_CACHE.text.exchanges) \cup Range(ParseExchanges(EXCHANGES)) :
           Occurrences(at_start.SYMBOLS_CACHE.text.exchanges, x)
               = Occurrences(ParseExchanges(EXCHANGES), x))
        => CacheReturned

\* the cache written for US,DE was returned to a process configured DE, US
CacheHitOnReorderedList ==
    /\ CacheFreshAtStart
    /\ at_start.SYMBOLS_CACHE.text.exchanges = <<Str_US, Str_DE>>
    /\ ParseExchanges(EXCHANGES) = <<Str_DE, Str_US>>
    /\ pc = "calendar"
    /\ CacheReturned

\* the symbols of the listings of the exchanges whose request succeeded:
\* stripped, not empty, the type naming neither an ETF nor a fund
ListedBySucceeded ==
    UNION { { Strip(OrEmpty(SymbolListing(requests[n].arg)[i].symbol)) :
                i \in { j \in 1..Len(SymbolListing(requests[n].arg)) :
                          LET row == SymbolListing(requests[n].arg)[j]
                              typ == Lower(OrEmpty(row.type))
                          IN  /\ Strip(OrEmpty(row.symbol)) # <<>>
                              /\ \A k \in 1..(Len(typ) - 2) :
                                    <<typ[k], typ[k + 1], typ[k + 2]>> # <<"e", "t", "f">>
                              /\ \A k \in 1..(Len(typ) - 3) :
                                    <<typ[k], typ[k + 1], typ[k + 2], typ[k + 3]>>
                                        # <<"f", "u", "n", "d">> } }
            : n \in { m \in 1..Len(requests) :
                        requests[m].kind = "symbol" /\ requests[m].ok } }

\* C9: a failed listing request ends neither the refresh nor the process;
\* once the refresh is over every configured exchange has been queried, the
\* universe is the set of eligible symbols of the exchanges that answered,
\* and the cache file holds that set and the configured exchange list.
RefreshSurvivesFailedListing ==
    /\ \A i \in 1..Len(requests) :
          (requests[i].kind = "symbol" /\ ~requests[i].ok) =>
              \/ pc = "symbols"
              \/ i < Len(requests)
              \/ "symbols_cache.json" \in written
    /\ "symbols_cache.json" \in written =>
          /\ [i \in 1..Len(RequestsOf("symbol")) |-> RequestsOf("symbol")[i].arg] = ex_list
          /\ sym_universe = ListedBySucceeded
          /\ SYMBOLS_CACHE.exists /\ SYMBOLS_CACHE.text.valid
          /\ Range(SYMBOLS_CACHE.text.symbols) = sym_universe
          /\ Len(SYMBOLS_CACHE.text.symbols) = Cardinality(sym_universe)
          /\ SYMBOLS_CACHE.text.exchanges = ex_list
          /\ SYMBOLS_CACHE.mtime >= at_start.now

\* the US listing failed, the DE listing was still fetched, and the
\* universe written is that of DE alone
PartialUniverseWritten ==
    /\ "symbols_cache.json" \in written
    /\ Len(requests) >= 2
    /\ requests[1] = [kind |-> "symbol", arg |-> Str_US, ok |-> FALSE]
    /\ requests[2] = [kind |-> "symbol", arg |-> Str_DE, ok |-> TRUE]
    /\ sym_universe = {Str_B, Str_C}

\* the last request of the running process was a calendar request that failed
CalendarFetchFailed ==
    /\ requests # <<>>
    /\ requests[Len(requests)].kind = "calendar"
    /\ ~requests[Len(requests)].ok

\* C11 as stated: a process ends with a non-zero exit status only when the
\* access token is absent.
NonZeroExitOnlyWithoutToken ==
    (runs > 0 /\ pc = "exited" /\ exit_code # 0) => ~Truthy(FINNHUB_TOKEN)

\* C11 amended: a process ends with a non-zero exit status exactly when the
\* access token is absent or a calendar request failed; a failed listing
\* request alone leaves the exit status at zero.
NonZeroExitWithoutTokenOrCalendar ==
    (runs > 0 /\ pc = "exited") =>
        /\ exit_code # 0 <=> (~Truthy(FINNHUB_TOKEN) \/ CalendarFetchFailed)
        /\ ~Truthy(FINNHUB_TOKEN) => requests = <<>> /\ written = {}

\* a process whose US listing failed went on to the calendar, and ended with
\* status 1 when its second calendar request failed
ListingFailedThenCalendarFailed ==
    /\ pc = "exited" /\ exit_code = 1
    /\ Truthy(FINNHUB_TOKEN)
    /\ Len(requests) = 4
    /\ requests[1] = [kind |-> "symbol", arg |-> Str_US, ok |-> FALSE]
    /\ requests[3].kind = "calendar" /\ requests[3].ok
    /\ CalendarFetchFailed

\* the members of a serialized record other than lastUpdatedUtc
WithoutStamp(members) == <<members[1], members[3], members[4], members[5]>>

\* the index file found at the start holds, symbol by symbol, the next date,
\* time flag and row count of the index this run computed
SameRecordsAsPersisted ==
    LET old == Loads(at_start.OUTPUT_JSON.text)
    IN  /\ at_start.OUTPUT_JSON.exists
        /\ old.ok
        /\ DOMAIN old.value = DOMAIN idx
        /\ \A k \in DOMAIN idx :
              WithoutStamp(old.value[k]) = WithoutStamp(DumpRecord(idx[k]))

\* C12: a full run that started at another time than the run that wrote the
\* index file, used the universe that run left in the cache, and computed
\* the same record for every symbol, does not write the index file.
SameOutputNeverRewritten ==
    (/\ CompletedFullRun
     /\ runs >= 2
     /\ at_start.OUTPUT_JSON.exists
     /\ at_start.OUTPUT_JSON.mtime >= T0
     /\ at_start.now # at_start.OUTPUT_JSON.mtime
     /\ at_start.SYMBOLS_CACHE.exists
     /\ at_start.SYMBOLS_CACHE.mtime = at_start.OUTPUT_JSON.mtime
     /\ CacheReturned
     /\ SameRecordsAsPersisted)
        => /\ "earnings.json" \notin written
           /\ OUTPUT_JSON = at_start.OUTPUT_JSON

\* the cache found at the start was readable, younger than the staleness
\* window and written for the configured identifiers, each as many times
CacheUsableAtStart ==
    /\ CacheFreshAtStart
    /\ \A x \in Range(at_start.SYMBOLS_CACHE.text.exchanges) \cup Range(ex_list) :
          Occurrences(at_start.SYMBOLS_CACHE.text.exchanges, x) = Occurrences(ex_list, x)

\* C13 as stated: after a run aborted by a failed calendar request all four
\* files are as they were when the run started.
AbortWritesNothing ==
    CalendarFetchFailed =>
        /\ OUTPUT_JSON = at_start.OUTPUT_JSON
        /\ SYMBOLS_CACHE = at_start.SYMBOLS_CACHE
        /\ STATS_JSON = at_start.STATS_JSON
        /\ LAST_RUN = at_start.LAST_RUN

\* C13 amended: after a run aborted by a failed calendar request the index
\* file, stats.json and last_run.txt are as they were when the run started;
\* the universe cache is as it was if it was usable at the start, and
\* otherwise has been rewritten by the refresh that preceded the calendar
\* requests.
AbortWritesOnlyRefreshedCache ==
    CalendarFetchFailed =>
        /\ OUTPUT_JSON = at_start.OUTPUT_JSON
        /\ STATS_JSON = at_start.STATS_JSON
        /\ LAST_RUN = at_start.LAST_RUN
        /\ written \subseteq {"symbols_cache.json"}
        /\ CacheUsableAtStart =>
              SYMBOLS_CACHE = at_start.SYMBOLS_CACHE /\ written = {}
        /\ ~CacheUsableAtStart =>
              /\ written = {"symbols_cache.json"}
              /\ SYMBOLS_CACHE.exists /\ SYMBOLS_CACHE.text.valid
              /\ SYMBOLS_CACHE.mtime >= at_start.now
              /\ SYMBOLS_CACHE.text.exchanges = ex_list
              /\ Range(SYMBOLS_CACHE.text.symbols) = sym_universe

\* a run that started without a universe cache, with an index file on disk,
\* wrote the cache and was then aborted by its first calendar request
AbortedAfterRefresh ==
    /\ CalendarFetchFailed
    /\ Len(RequestsOf("calendar")) = 1
    /\ ~at_start.SYMBOLS_CACHE.exists
    /\ at_start.OUTPUT_JSON.exists
    /\ SYMBOLS_CACHE.exists
    /\ sym_universe = {Str_A, Str_B, Str_C}

\* the running process is past load_symbols_cached
UniverseLoaded ==
    /\ TokenPresent /\ ~FreshAtStart
    /\ pc \in {"calendar", "exited"}

\* the cache found at the start was missing, unreadable, as old as the
\* staleness window or older, or written for other exchange identifiers
CacheStaleOrForeign ==
    \/ ~at_start.SYMBOLS_CACHE.exists
    \/ ~at_start.SYMBOLS_CACHE.text.valid
    \/ at_start.now - at_start.SYMBOLS_CACHE.mtime >= TTL_DAYS * 86400
    \/ Range(at_start.SYMBOLS_CACHE.text.exchanges) # Range(ex_list)

\* C14: a cache that is missing, unreadable, stale or written for other
\* exchange identifiers is not returned: every configured exchange is
\* queried again and the cache file is overwritten with the new universe and
\* the configured exchange list.
StaleOrForeignCacheRefreshed ==
    (UniverseLoaded /\ CacheStaleOrForeign) =>
        /\ [i \in 1..Len(RequestsOf("symbol")) |-> RequestsOf("symbol")[i].arg] = ex_list
        /\ "symbols_cache.json" \in written
        /\ SYMBOLS_CACHE.exists /\ SYMBOLS_CACHE.text.valid
        /\ SYMBOLS_CACHE.mtime >= at_start.now
        /\ SYMBOLS_CACHE.text.generatedUtc = IsoUtc(SYMBOLS_CACHE.mtime)
        /\ SYMBOLS_CACHE.text.exchanges = ex_list
        /\ Range(SYMBOLS_CACHE.text.symbols) = sym_universe
        /\ sym_universe = ListedBySucceeded

\* a cache written for the configured exchanges exactly seven days before
\* was not returned: the exchanges were queried and the file rewritten
WeekOldCacheRefreshed ==
    /\ UniverseLoaded
    /\ at_start.SYMBOLS_CACHE.exists
    /\ at_start.SYMBOLS_CACHE.text.valid
    /\ at_start.SYMBOLS_CACHE.text.exchanges = ex_list
    /\ at_start.now - at_start.SYMBOLS_CACHE.mtime = TTL_DAYS * 86400
    /\ Len(RequestsOf("symbol")) = 2
    /\ SYMBOLS_CACHE.mtime = at_start.now

\* the rows the calendar returned to this run that carry symbol sym, after
\* stripping, and the date text d
RowsFetchedFor(sym, d) ==
    {i \in 1..Len(all_rows) :
        /\ Truthy(all_rows[i].symbol)
        /\ Strip(all_rows[i].symbol) = sym
        /\ all_rows[i].date = d}

\* C15: after a full run every key of the index is a member of the universe
\* the run used, and the row count of a record counts rows of its own
\* symbol only; a row whose symbol is outside the universe is not among the
\* rows reduced.
IndexKeysWithinUniverse ==
    CompletedFullRun =>
        /\ DOMAIN idx \subseteq sym_universe
        /\ \A sym \in DOMAIN idx :
              /\ idx[sym].symbol = sym
              /\ idx[sym].finnhubCount
                    = Cardinality(RowsFetchedFor(sym, idx[sym].nextEarningsDate))
        /\ \A i \in 1..Len(calendar_json) :
              Strip(OrEmpty(calendar_json[i].symbol)) \in sym_universe

\* the calendar returned a row for D, which no exchange lists, next to a row
\* for A: the index has a record for A and none for D
OutsiderRowLeftNoRecord ==
    /\ CompletedFullRun
    /\ \E i \in 1..Len(all_rows) : all_rows[i].symbol = Str_D
    /\ Str_D \notin sym_universe
    /\ Str_A \in DOMAIN idx
    /\ Str_D \notin DOMAIN idx
    /\ idx[Str_A].finnhubCount = 1

\* the symbols that have a surviving row in this run: the row has a symbol
\* of the universe and a well-formed date that is not before today
SymbolsWithSurvivingRows ==
    { Strip(all_rows[i].symbol) :
        i \in { j \in 1..Len(all_rows) :
                  /\ Truthy(all_rows[j].symbol)
                  /\ Strip(all_rows[j].symbol) \in sym_universe
                  /\ Truthy(all_rows[j].date)
                  /\ Strptime(all_rows[j].date) # ValueError
                  /\ Strptime(all_rows[j].date) >= today } }

\* C16: the index a full run computes has a record for exactly the symbols
\* with a surviving row, each with a row count of at least 1, and the index
\* file holds exactly one record for each of these symbols when the run
\* ends, whatever it held before.
OneRecordPerSurvivingSymbol ==
    CompletedFullRun =>
        /\ DOMAIN idx = SymbolsWithSurvivingRows
        /\ \A sym \in DOMAIN idx : idx[sym].finnhubCount >= 1
        /\ OUTPUT_JSON.exists
        /\ Loads(OUTPUT_JSON.text).ok
        /\ DOMAIN Loads(OUTPUT_JSON.text).value = SymbolsWithSurvivingRows
        /\ Len(OUTPUT_JSON.text) = Cardinality(SymbolsWithSurvivingRows) + 2

\* the index file had a record for C when the run started; the run got the
\* row of C again, now dated in the past, and a row of A: the file now has A
\* and not C
StaleRecordNotCarriedForward ==
    /\ CompletedFullRun
    /\ Loads(at_start.OUTPUT_JSON.text).ok
    /\ Str_C \in DOMAIN Loads(at_start.OUTPUT_JSON.text).value
    /\ Str_C \in sym_universe
    /\ \E i \in 1..Len(all_rows) : all_rows[i].symbol = Str_C
    /\ DOMAIN idx = {Str_A}
    /\ DOMAIN Loads(OUTPUT_JSON.text).value = {Str_A}

\* the process took the freshness-gated path and ended
GatedRunDone == TokenPresent /\ FreshAtStart /\ pc = "exited"

\* the number of records present in a text, whether or not the text is a
\* complete document
RecordsInText(text) ==
    Cardinality({ text[i][2] : i \in {j \in 1..Len(text) : Len(text[j]) = 3} })

\* the text opens and closes as a JSON object does
CompleteText(text) ==
    /\ Len(text) >= 2
    /\ Len(text[1]) = 1 /\ text[1][1] = "{"
    /\ Len(text[Len(text)]) = 1 /\ text[Len(text)][1] = "}"

\* C17 as stated: on the gated path the count written to stats.json is the
\* number of records in the index file, whatever the state of that file.
GatedCountIsRecordCount ==
    GatedRunDone =>
        STATS_JSON.text.count = RecordsInText(at_start.OUTPUT_JSON.text)

\* C17 amended: on the gated path the count written to stats.json is the
\* number of records in the index file when the file is a complete
\* document, and 0 when it cannot be parsed; no other count is written.
GatedCountIsRecordCountOrZero ==
    GatedRunDone =>
        /\ STATS_JSON.mtime >= at_start.now
        /\ DOMAIN STATS_JSON.text = {"count", "daysAhead", "daysBack", "lastUpdatedUtc"}
        /\ CompleteText(at_start.OUTPUT_JSON.text) =>
              STATS_JSON.text.count = RecordsInText(at_start.OUTPUT_JSON.text)
        /\ ~CompleteText(at_start.OUTPUT_JSON.text) => STATS_JSON.text.count = 0

\* a gated run found an index file cut off after its first record and
\* reported a count of 0
GatedRunOnTruncatedIndex ==
    /\ GatedRunDone
    /\ at_start.OUTPUT_JSON.text = Garbage
    /\ RecordsInText(at_start.OUTPUT_JSON.text) = 1
    /\ STATS_JSON.text.count = 0

\* the process that has ended was a full run: it got past the gate
FullRunEnded == TokenPresent /\ ~FreshAtStart /\ pc = "exited"

\* C18: the gate measures the time since the index file was written, not
\* since the last run.  The process started after a full run that left the
\* index file unwritten is a full run again, however soon it starts; the
\* process started less than EARNINGS_TTL_HOURS after a full run that wrote
\* the index file makes no request and ends on the gated path.
GateAgeCountsFromLastWrite ==
    [][ (FullRunEnded /\ runs' = runs + 1 /\ Truthy(FINNHUB_TOKEN')) =>
            /\ "earnings.json" \notin written =>
                  /\ OUTPUT_JSON = at_start.OUTPUT_JSON
                  /\ pc' \in {"symbols", "calendar"}
            /\ ("earnings.json" \in written
                    /\ now - LAST_RUN.mtime < EARNINGS_TTL_HOURS * 3600) =>
                  /\ OUTPUT_JSON.mtime = LAST_RUN.mtime
                  /\ pc' = "exited" /\ requests' = <<>>
                  /\ written' = {"stats.json", "last_run.txt"}
                  /\ OUTPUT_JSON' = OUTPUT_JSON ]_vars

\* a full run completed without writing the index file, and the process
\* started one second later is past the gate again
FullRunAgainAfterUnchangedIndex ==
    /\ runs >= 2
    /\ TokenPresent /\ pc \in {"symbols", "calendar"}
    /\ at_start.LAST_RUN.exists
    /\ at_start.now - at_start.LAST_RUN.mtime = 1
    /\ "universeCount" \in DOMAIN at_start.STATS_JSON.text
    /\ at_start.STATS_JSON.mtime = at_start.LAST_RUN.mtime
    /\ at_start.OUTPUT_JSON.exists
    /\ at_start.OUTPUT_JSON.mtime < at_start.LAST_RUN.mtime

\* the eligible symbols of the exchanges the cache found at the start was
\* written for that are not in that cache: their listing request had failed
SymbolsLostAtRefresh ==
    UNION { Range(ListedSymbols(SymbolListing(ex))) :
              ex \in Range(at_start.SYMBOLS_CACHE.text.exchanges) }
        \ Range(at_start.SYMBOLS_CACHE.text.symbols)

\* the cache found at the start is usable and holds a partial universe
PartialCacheAtStart == CacheUsableAtStart /\ SymbolsLostAtRefresh # {}

\* C19: a universe cache written while a listing request failed looks like
\* any other: it names every configured exchange and has no further field.
\* A full run that finds it usable queries no exchange, uses its symbols as
\* the universe, and computes an index without the symbols that were lost.
PartialUniverseReused ==
    PartialCacheAtStart =>
        /\ DOMAIN at_start.SYMBOLS_CACHE.text
              = {"valid", "exchanges", "generatedUtc", "symbols"}
        /\ RequestsOf("symbol") = <<>>
        /\ "symbols_cache.json" \notin written
        /\ SYMBOLS_CACHE = at_start.SYMBOLS_CACHE
        /\ sym_universe = Range(at_start.SYMBOLS_CACHE.text.symbols)
        /\ CompletedFullRun => DOMAIN idx \cap SymbolsLostAtRefresh = {}

\* the cache was written a day before while the US listing failed; the run
\* reused it, got a row for A from the calendar, and has no record for A
RowOfLostSymbolDropped ==
    /\ PartialCacheAtStart
    /\ at_start.now - at_start.SYMBOLS_CACHE.mtime = 86400
    /\ at_start.SYMBOLS_CACHE.text.exchanges = <<Str_US, Str_DE>>
    /\ SymbolsLostAtRefresh = {Str_A}
    /\ CompletedFullRun
    /\ \E i \in 1..Len(all_rows) : all_rows[i].symbol = Str_A
    /\ Str_C \in DOMAIN idx
    /\ Str_A \notin DOMAIN idx

\* the run refreshed the universe and every listing request failed
AllListingsFailed ==
    /\ RequestsOf("symbol") # <<>>
    /\ \A i \in 1..Len(requests) : requests[i].kind = "symbol" => ~requests[i].ok

\* the index file found at the start held at least one record
IndexNonEmptyAtStart ==
    /\ at_start.OUTPUT_JSON.exists
    /\ Loads(at_start.OUTPUT_JSON.text).ok
    /\ DOMAIN Loads(at_start.OUTPUT_JSON.text).value # {}

\* C20: a full run in which every listing request failed and every calendar
\* request succeeded ends with an empty universe and an empty index, and the
\* index file holds the empty index afterwards: a non-empty index found at
\* the start has been overwritten.
EmptyUniverseOverwritesIndex ==
    (CompletedFullRun /\ AllListingsFailed) =>
        /\ sym_universe = {}
        /\ SYMBOLS_CACHE.exists /\ SYMBOLS_CACHE.text.symbols = <<>>
        /\ DOMAIN idx = {}
        /\ OUTPUT_JSON.exists
        /\ OUTPUT_JSON.text = << <<"{">>, <<"}">> >>
        /\ IndexNonEmptyAtStart =>
              /\ "earnings.json" \in written
              /\ OUTPUT_JSON.mtime >= at_start.now

\* the index file had records, a week later both listing requests failed,
\* the calendar returned a row for A, and the file now holds the empty index
IndexEmptiedByFailedListings ==
    /\ CompletedFullRun /\ AllListingsFailed
    /\ Len(RequestsOf("symbol")) = 2
    /\ IndexNonEmptyAtStart
    /\ \E i \in 1..Len(all_rows) : all_rows[i].symbol = Str_A
    /\ OUTPUT_JSON.text = << <<"{">>, <<"}">> >>
    /\ OUTPUT_JSON.mtime = at_start.now

====
